---- MODULE Spec2Model ----
\* LICD: dynamic I2C slave-address assignment.
\* Master side: LicDeviceManager (PollDevice, DoPollDevice, RegisterDevice).
\* Slave side:  LicDevice (constructor, Create, ReceiveAddress, GetIsValid).
\* Both copies of the source (src/licd.cpp and src/src/*.cpp) have the same
\* statements; line numbers in the comments refer to src/licd.cpp / src/licd.h.
EXTENDS Integers, Sequences, FiniteSets, TLC

\* ------------------------------------------------------------------ constants
LICD_LISTENER_ADDRESS == 1
LICD_ADDRESS_SPACE == 2
LICD_DEVICE_COUNT == 126
LICD_COMMAND_UUID == 1
LICD_COMMAND_ASSIGN == 2
LICD_COMMAND_RETRY == 3
\* sizeof( LicDeviceHeader ): two uint32_t
HeaderSize == 8
\* (uint8_t)Wire.read( ) on an empty receive buffer: -1 narrowed to a byte
NoByte == 255
\* uint32_t error = 5 : "no transaction done yet" in DoPollDevice
ErrorInit == 5

\* --------------------------------------------------------------------- bounds
NumSlaves == 2
MaxRetryCount == 2
MaxUuid == 2
MaxAvail == 9
MaxGranted == 2
MaxCount == 2

Slaves == 1..NumSlaves
Slots == 0..(LICD_DEVICE_COUNT - 1)
\* results of Wire.endTransmission( ): 0 Ok, 1 too long, 2 NACK on address,
\* 3 NACK on data, 4 other
TransactionErrors == 0..4

\* LicDeviceHeader values the bus can deliver
Headers == [uuid : 0..MaxUuid, flags : 0..1]
\* LicDeviceHeader( ): both fields default to 0
EmptyHeader == [uuid |-> 0, flags |-> 0]
\* m_devices{ } : every slot value-initialised
EmptyRegistry == [i \in Slots |-> EmptyHeader]

\* The identity a slave is meant to report (the scenario's input). LicDevice
\* itself stores no uuid or flags.
Identity(s) == [uuid |-> s, flags |-> 0]

VARIABLES
    m_retry_count,   \* LicDeviceManager::m_retry_count
    m_devices,       \* LicDeviceManager::m_devices
    pc,              \* position of the master inside PollDevice
    error,           \* DoPollDevice: error
    retry_count,     \* DoPollDevice: retry_count
    header,          \* RegisterDevice: header
    new_address,     \* RegisterDevice / PollDevice: new_address
    address_offset,  \* RegisterDevice: address_offset
    dev,             \* the slaves on the bus: LicDevice members and Wire binding
    wire,            \* the bus transactions of the current PollDevice call
    start_devices,   \* m_devices as it was when the current PollDevice call began
    granted,         \* every address sent with ASSIGN in this session
    call             \* the last call of WireHelper::read made on its own:
                     \* count, bytes available, value returned

vars == << m_retry_count, m_devices, pc, error, retry_count, header,
           new_address, address_offset, dev, wire, start_devices, granted,
           call >>

\* ---------------------------------------------------------------- slave side
\* LicDevice::Create: Wire.begin( m_address ), Wire.onReceive, Wire.onRequest
Create(d, receive_handler, request_handler) ==
    [d EXCEPT !.bound = d.m_address,
              !.receive = receive_handler,
              !.request = request_handler]

\* LicDevice::LicDevice: m_address{ LICD_LISTENER_ADDRESS },
\* Create( ReceiveAddress, nullptr )
NewDevice ==
    Create([m_address |-> LICD_LISTENER_ADDRESS, bound |-> 0,
            receive |-> "none", request |-> "none", rx |-> << >>],
           "ReceiveAddress", "nullptr")

\* (uint8_t)Wire.read( ) on the bytes left in the receive buffer
WireRead(buf) == IF Len(buf) > 0 THEN buf[1] ELSE NoByte

\* ReceiveAddress with the ASSIGN branch registering ReceiveAddress again
\* instead of the caller's handlers
ReceiveAddressStaysBound(d, msg) ==
    IF Len(msg) > 0 /\ msg[1] = LICD_COMMAND_ASSIGN
    THEN Create([d EXCEPT !.m_address = WireRead(Tail(msg))],
                "ReceiveAddress", "nullptr")
    ELSE d

\* ReceiveAddress with the ASSIGN branch storing the address without calling
\* Create
ReceiveAddressNoCreate(d, msg) ==
    IF Len(msg) > 0 /\ msg[1] = LICD_COMMAND_ASSIGN
    THEN [d EXCEPT !.m_address = WireRead(Tail(msg))]
    ELSE d

\* ReceiveAddress with a plain else in place of the test for ASSIGN
ReceiveAddressElseAssign(d, msg) ==
    IF Len(msg) > 0 /\ msg[1] # LICD_COMMAND_UUID
    THEN Create([d EXCEPT !.m_address = WireRead(Tail(msg))],
                "m_receive", "m_request")
    ELSE d

\* LicDevice::ReceiveAddress, with msg the bytes of the transaction
ReceiveAddress(d, msg) ==
    IF Len(msg) > 0
    THEN LET command == msg[1] IN
         IF command = LICD_COMMAND_UUID THEN d
         ELSE IF command = LICD_COMMAND_ASSIGN
              THEN Create([d EXCEPT !.m_address = WireRead(Tail(msg))],
                          "m_receive", "m_request")
              ELSE d
    ELSE d

\* The transport fills the receive buffer (rx) and calls the handler
\* registered with Wire.onReceive. The caller's own handler (m_receive) cannot
\* reach LicDevice's protected members.
OnReceive(d, msg) ==
    LET got == [d EXCEPT !.rx = msg] IN
    IF d.receive = "ReceiveAddress" THEN ReceiveAddress(got, msg) ELSE got

\* A slave as the constructor left it: on the listener address with
\* ReceiveAddress registered
Listening(d) ==
    d.m_address = LICD_LISTENER_ADDRESS /\ d.receive = "ReceiveAddress"

\* The addresses the master can grant: LICD_ADDRESS_SPACE + slot index
AssignableAddresses ==
    LICD_ADDRESS_SPACE..(LICD_ADDRESS_SPACE + LICD_DEVICE_COUNT - 1)

\* LicDevice::GetIsValid / GetAddress
GetIsValid(d) == d.m_address > LICD_LISTENER_ADDRESS
GetAddress(d) == d.m_address

\* ------------------------------------------------------------------- the bus
\* Slaves whose transport is bound to target (Wire.begin( m_address ))
BoundTo(d, target) == {s \in DOMAIN d : d[s].bound = target}

\* One write transaction to target: the slaves that take the bytes and the
\* value Wire.endTransmission( ) returns. Ok needs a slave that acknowledged;
\* "too long" and "NACK on address" mean no slave took the bytes.
BusOutcomes(d, target) ==
    {o \in [err : TransactionErrors, rcpt : SUBSET BoundTo(d, target)] :
        /\ (o.err = 0 => o.rcpt # {})
        /\ (o.err \in {1, 2} => o.rcpt = {})}

Deliver(d, rcpt, msg) ==
    [s \in DOMAIN d |-> IF s \in rcpt THEN OnReceive(d[s], msg) ELSE d[s]]

WriteEntry(msg, err) == [kind |-> "write", bytes |-> msg, err |-> err, n |-> Len(msg)]
RequestEntry(avail) == [kind |-> "request", bytes |-> << >>, err |-> 0, n |-> avail]

\* --------------------------------------------------------------- WireHelper
\* WireHelper::wait: the data is there (no timeout) once Wire.available( )
\* reaches sizeof( T ); avail is what Wire.requestFrom left in the buffer.
WireHelperWait(avail) == avail >= HeaderSize

\* Byte counts Wire.requestFrom can leave in the buffer: none, too few,
\* exactly the header, more than the header
AvailCounts == {0, 5, HeaderSize, MaxAvail}

\* read without the wait and the final size test
WireHelperReadAlways(count, avail) == TRUE

\* WireHelper::read( &header, count, timeout ): copies at most data_size bytes

WireHelperRead(count, avail) ==
    IF count = 0 \/ ~WireHelperWait(avail)
    THEN FALSE
    ELSE LET data_size == HeaderSize * count
             data_offset == IF avail < data_size THEN avail ELSE data_size
         IN data_offset = data_size

\* --------------------------------------------------------------- master side
\* DoPollDevice returning true whatever the last error
DoPollResultAlways(e) == TRUE

\* DoPollDevice: return ( error == 0 )

DoPollResult(e) == (e = 0)

\* the final transaction without the test on new_address
ResponseAssignOnly(addr) == << LICD_COMMAND_ASSIGN, addr >>

\* PollDevice, lines 34-38: the bytes of the final transaction

Response(addr) ==
    IF addr > LICD_LISTENER_ADDRESS
    THEN << LICD_COMMAND_ASSIGN, addr >>
    ELSE << LICD_COMMAND_RETRY >>

FreeSlots(reg) == {i \in Slots : reg[i].uuid = 0}
MinFree(reg) == CHOOSE i \in FreeSlots(reg) : \A j \in FreeSlots(reg) : i <= j

\* LicDeviceManager::LicDeviceManager and one LicDevice per slave on the bus,
\* with reg the contents of m_devices
InitWith(reg) ==
    /\ m_retry_count \in 0..MaxRetryCount
    /\ m_devices = reg
    /\ pc = "idle"
    /\ error = ErrorInit
    /\ retry_count = 0
    /\ header = EmptyHeader
    /\ new_address = LICD_LISTENER_ADDRESS
    /\ address_offset = 0
    /\ \E n \in 0..NumSlaves : dev = [s \in 1..n |-> NewDevice]
    /\ wire = << >>
    /\ start_devices = reg
    /\ granted = << >>
    /\ call = [count |-> 0, avail |-> 0, result |-> FALSE]

\* After construction: m_devices{ }
Init == InitWith(EmptyRegistry)

\* Registry contents handed to RegisterDevice as an input: empty, only slot 0
\* occupied, free slots exactly at {2, 5, 9}, only slot 0 free, and full.
OccupiedExcept(free) ==
    [i \in Slots |-> IF i \in free THEN EmptyHeader ELSE [uuid |-> 1, flags |-> 0]]
RegistryInputs ==
    { EmptyRegistry, OccupiedExcept(Slots \ {0}), OccupiedExcept({2, 5, 9}),
      OccupiedExcept({0}), OccupiedExcept({}) }

InitAny == \E reg \in RegistryInputs : InitWith(reg)

\* the loop condition without the test on error
ProbeAgainUntilCount(e, n, limit) == n < limit

\* DoPollDevice: the condition of the for loop
ProbeAgain(e, n, limit) == e > 0 /\ n < limit

\* PollDevice is entered; DoPollDevice: error = 5, retry_count = 0
PollDeviceBegin ==
    /\ pc = "idle"
    /\ Len(granted) < MaxGranted
    /\ pc' = "probe"
    /\ error' = ErrorInit
    /\ retry_count' = 0
    /\ wire' = << >>
    /\ start_devices' = m_devices
    /\ UNCHANGED << call, m_retry_count, m_devices, header, new_address,
                    address_offset, dev, granted >>

\* DoPollDevice: one pass of the for loop
DoPollDeviceRetry ==
    /\ pc = "probe"
    /\ ProbeAgain(error, retry_count, m_retry_count)
    /\ \E o \in BusOutcomes(dev, LICD_LISTENER_ADDRESS) :
          /\ dev' = Deliver(dev, o.rcpt, << LICD_COMMAND_UUID >>)
          /\ error' = o.err
          /\ wire' = Append(wire, WriteEntry(<< LICD_COMMAND_UUID >>, o.err))
    /\ retry_count' = retry_count + 1
    /\ UNCHANGED << call, m_retry_count, m_devices, pc, header, new_address,
                    address_offset, start_devices, granted >>

\* DoPollDevice: the loop is left; PollDevice returns at once on false
DoPollDeviceReturn ==
    /\ pc = "probe"
    /\ ~ProbeAgain(error, retry_count, m_retry_count)
    /\ pc' = IF DoPollResult(error) THEN "pull" ELSE "idle"
    /\ UNCHANGED << call, m_retry_count, m_devices, error, retry_count, header,
                    new_address, address_offset, dev, wire, start_devices,
                    granted >>

\* RegisterDevice, lines 69-78 and 89-92: Wire.requestFrom, WireHelper.read
RegisterDeviceRead ==
    /\ pc = "pull"
    /\ new_address' = LICD_LISTENER_ADDRESS
    /\ address_offset' = 0
    /\ \E avail \in AvailCounts :
          /\ wire' = Append(wire, RequestEntry(avail))
          /\ IF WireHelperRead(1, avail)
             THEN /\ header' \in Headers
                  /\ pc' = "scan"
             ELSE /\ header' = EmptyHeader
                  /\ pc' = "respond"
    /\ UNCHANGED << call, m_retry_count, m_devices, error, retry_count, dev,
                    start_devices, granted >>

\* the address computed from the wrong base
NewAddressNextBase(offset) == (LICD_ADDRESS_SPACE + 1 + offset) % 256

\* RegisterDevice, line 85: uint8_t new_address = LICD_ADDRESS_SPACE + offset
NewAddress(offset) == (LICD_ADDRESS_SPACE + offset) % 256

\* RegisterDevice, lines 81-88: one evaluation of the while condition and,
\* when it holds, one pass of the body. `continue` jumps back to the
\* condition with address_offset as it was.
RegisterDeviceScan ==
    /\ pc = "scan"
    /\ IF new_address = LICD_LISTENER_ADDRESS /\ address_offset < LICD_DEVICE_COUNT
       THEN IF m_devices[address_offset].uuid > 0
            THEN UNCHANGED << m_devices, new_address, pc >>
            ELSE /\ new_address' = NewAddress(address_offset)
                 /\ m_devices' = [m_devices EXCEPT ![address_offset] = header]
                 /\ pc' = pc
       ELSE /\ pc' = "respond"
            /\ UNCHANGED << m_devices, new_address >>
    /\ UNCHANGED << call, m_retry_count, error, retry_count, header, address_offset,
                    dev, wire, start_devices, granted >>

\* PollDevice, lines 32-40: the final transaction; its result is not read
PollDeviceRespond ==
    /\ pc = "respond"
    /\ LET msg == Response(new_address) IN
       /\ \E o \in BusOutcomes(dev, LICD_LISTENER_ADDRESS) :
             /\ dev' = Deliver(dev, o.rcpt, msg)
             /\ wire' = Append(wire, WriteEntry(msg, o.err))
       /\ granted' = IF msg[1] = LICD_COMMAND_ASSIGN
                     THEN Append(granted, msg[2]) ELSE granted
    /\ pc' = "idle"
    /\ UNCHANGED << call, m_retry_count, m_devices, error, retry_count, header,
                    new_address, address_offset, start_devices >>

Master ==
    \/ PollDeviceBegin
    \/ DoPollDeviceRetry
    \/ DoPollDeviceReturn
    \/ RegisterDeviceRead
    \/ RegisterDeviceScan
    \/ PollDeviceRespond

Next == Master

Spec == Init /\ [][Next]_vars

\* The master's code keeps running: a step of PollDevice that can be taken is
\* taken.
FairSpec == Spec /\ WF_vars(Master)

\* PollDevice on every registry input, the master's code running on
RegSpec == InitAny /\ [][Next]_vars /\ WF_vars(Master)

\* PollDevice with slaves whose uuid is not 0: every complete header that is
\* pulled has uuid # 0.
ProgressNext == Master /\ (pc' = "scan" => header'.uuid # 0)

\* Transactions that succeed: a probe that returns Ok, a pull that brings the
\* whole header, a final transaction that returns Ok
ProbeSucceeds == DoPollDeviceRetry /\ error' = 0
PullSucceeds == RegisterDeviceRead /\ pc' = "scan" /\ header'.uuid # 0
RespondSucceeds == PollDeviceRespond /\ wire'[Len(wire')].err = 0

\* The master loop keeps calling PollDevice, and a transaction that is tried
\* again and again eventually succeeds.
ProgressSpec ==
    /\ Init
    /\ [][ProgressNext]_vars
    /\ WF_vars(ProgressNext)
    /\ SF_vars(ProbeSucceeds)
    /\ SF_vars(PullSucceeds)
    /\ SF_vars(RespondSucceeds)

\* WireHelper::read< LicDeviceHeader > called on its own with any count and
\* any number of bytes in the receive buffer
WireHelperReadCall ==
    /\ \E count \in 0..MaxCount, avail \in 0..(HeaderSize * MaxCount + 1) :
          call' = [count |-> count, avail |-> avail,
                   result |-> WireHelperRead(count, avail)]
    /\ UNCHANGED << m_retry_count, m_devices, pc, error, retry_count, header,
                    new_address, address_offset, dev, wire, start_devices,
                    granted >>

ReadSpec == Init /\ [][WireHelperReadCall]_vars

\* ------------------------------------------------- other traffic on the bus
\* Command bytes and payloads a slave's receive handler can be handed: the
\* three LICD commands, an unknown byte, an empty transaction, and ASSIGN with
\* no payload, with the listener address or with an assignable address.
InboundMessages ==
    { << >>, << LICD_COMMAND_UUID >>, << LICD_COMMAND_RETRY >>, << 4 >>,
      << LICD_COMMAND_ASSIGN >> }
    \cup { << LICD_COMMAND_ASSIGN, a >> : a \in {LICD_LISTENER_ADDRESS, 3} }

\* The bus carries a transaction to some bound address (the master's LICD
\* commands, application traffic, or LICD bytes sent again): each slave that
\* takes it has its registered receive handler called.
Inbound ==
    /\ pc = "idle"
    /\ \E s \in DOMAIN dev, msg \in InboundMessages :
          \E rcpt \in SUBSET BoundTo(dev, dev[s].bound) :
             /\ s \in rcpt
             /\ dev' = Deliver(dev, rcpt, msg)
    /\ UNCHANGED << call, m_retry_count, m_devices, pc, error, retry_count, header,
                    new_address, address_offset, wire, start_devices, granted >>

\* The slaves alone, under every sequence of inbound transactions
SlaveSpec == Init /\ [][Inbound]_vars

TypeOK ==
    /\ m_retry_count \in 0..MaxRetryCount
    /\ m_devices \in [Slots -> Headers]
    /\ pc \in {"idle", "probe", "pull", "scan", "respond"}
    /\ error \in 0..ErrorInit
    /\ retry_count \in 0..MaxRetryCount
    /\ header \in Headers
    /\ new_address \in 0..255
    /\ address_offset \in 0..255
    /\ DOMAIN dev \subseteq Slaves
    /\ \A s \in DOMAIN dev :
          /\ dev[s].m_address \in 0..255
          /\ dev[s].bound = dev[s].m_address
          /\ dev[s].receive \in {"ReceiveAddress", "m_receive"}
          /\ dev[s].request \in {"nullptr", "m_request"}
    /\ Len(wire) <= m_retry_count + 2
    /\ Len(granted) <= MaxGranted
    /\ call \in [count : 0..MaxCount, avail : 0..(HeaderSize * MaxCount + 1),
                result : BOOLEAN]

\* ------------------------------------------------------------ observations
\* what the current PollDevice call has put on the bus so far
ProbeOk == \E i \in 1..Len(wire) :
              wire[i].bytes = << LICD_COMMAND_UUID >> /\ wire[i].err = 0
PullRequested == \E i \in 1..Len(wire) : wire[i].kind = "request"
PullShort == \E i \in 1..Len(wire) :
                wire[i].kind = "request" /\ wire[i].n < HeaderSize
Sent(command) == {i \in 1..Len(wire) :
                     /\ wire[i].kind = "write"
                     /\ wire[i].bytes # << LICD_COMMAND_UUID >>
                     /\ wire[i].bytes[1] = command}
Responses == Sent(LICD_COMMAND_ASSIGN) \cup Sent(LICD_COMMAND_RETRY)
AllOk == /\ \A i \in 1..Len(wire) : wire[i].err = 0
         /\ \A i \in 1..Len(wire) : wire[i].kind = "request" => wire[i].n = HeaderSize
FullRegistry(reg) == FreeSlots(reg) = {}
Probes == {i \in 1..Len(wire) : wire[i].bytes = << LICD_COMMAND_UUID >>}
LastProbeOk == \E i \in Probes : wire[i].err = 0 /\ \A j \in Probes : j <= i

\* ------------------------------------------------------------------- claims

\* C1: no two slaves ever hold the same assigned address (GetAddress() > 0x01).
C1_UniqueSlaveAddresses ==
    \A s, u \in DOMAIN dev :
        (s # u /\ GetIsValid(dev[s]) /\ GetIsValid(dev[u]))
            => GetAddress(dev[s]) # GetAddress(dev[u])

\* C2: no two ASSIGN commands of a session carry the same address.
C2_GrantedOnce ==
    \A i, j \in 1..Len(granted) : i # j => granted[i] # granted[j]

\* C3: whenever a complete header has been pulled and the registry has a free
\* slot, RegisterDevice writes the header into the free slot of smallest index
\* i and returns 0x02 + i.
C3_FirstFit ==
    [](( /\ pc = "scan"
         /\ new_address = LICD_LISTENER_ADDRESS
         /\ FreeSlots(m_devices) # {} )
       => <>( /\ pc = "respond"
              /\ new_address = LICD_ADDRESS_SPACE + MinFree(start_devices)
              /\ m_devices = [start_devices EXCEPT ![MinFree(start_devices)] = header] ))

C5_PollDeviceTerminates == [](pc # "idle" => <>(pc = "idle"))

\* C6: empty registry, one listening slave with a non-zero uuid, every
\* transaction successful: after one PollDevice call slot 0 holds the slave's
\* identity, ASSIGN(0x02) was sent and the slave is valid at address 0x02.
C6_ScenarioOne ==
    ( /\ pc = "idle"
      /\ start_devices = EmptyRegistry
      /\ DOMAIN dev = {1}
      /\ ProbeOk /\ PullRequested /\ AllOk )
    => /\ m_devices[0] = Identity(1)
       /\ \E i \in Sent(LICD_COMMAND_ASSIGN) :
             wire[i].bytes = << LICD_COMMAND_ASSIGN, LICD_ADDRESS_SPACE >>
       /\ GetAddress(dev[1]) = LICD_ADDRESS_SPACE
       /\ GetIsValid(dev[1])

\* C7: while no probe of the call has returned Ok, the registry is as it was
\* when the call began, no header pull is requested and neither ASSIGN nor
\* RETRY is sent; so it is when the call has returned.
C7_NoProbeNoEffect ==
    ~ProbeOk => /\ m_devices = start_devices
                /\ ~PullRequested
                /\ Responses = {}
C7_Witness ==
    /\ pc = "idle"
    /\ m_retry_count > 0
    /\ Len(wire) = m_retry_count
    /\ ~ProbeOk
    /\ DOMAIN dev # {}
    /\ m_devices[0].uuid > 0

\* C8: if the header pull brought fewer than the 8 bytes, no registry slot is
\* written, RegisterDevice returns 0x01 and no ASSIGN is sent in the cycle.
C8_ShortPullGrantsNothing ==
    PullShort => /\ m_devices = start_devices
                 /\ new_address = LICD_LISTENER_ADDRESS
                 /\ Sent(LICD_COMMAND_ASSIGN) = {}
C8_Witness ==
    /\ pc = "idle"
    /\ ProbeOk
    /\ \E i \in 1..Len(wire) : wire[i].kind = "request" /\ wire[i].n = 5
    /\ BoundTo(dev, LICD_LISTENER_ADDRESS) # {}

C10_AssignedStays ==
    [][\A s \in DOMAIN dev :
          GetIsValid(dev[s]) => dev'[s].m_address = dev[s].m_address]_vars
C10_Witness ==
    \E s \in DOMAIN dev :
        /\ GetAddress(dev[s]) = 3
        /\ dev[s].rx = << LICD_COMMAND_ASSIGN, LICD_LISTENER_ADDRESS >>

\* C11: a Listening slave that receives ASSIGN(addr), addr an assignable
\* address, adopts addr, is valid, and is bound under addr with the caller's
\* receive and request handlers; from then on it is not bound to 0x01 and no
\* transaction changes its address or its handlers.
C11_AssignAdopts ==
    [][\A s \in DOMAIN dev :
          /\ \A a \in AssignableAddresses :
                (Listening(dev[s]) /\ dev'[s].rx = << LICD_COMMAND_ASSIGN, a >>)
                => /\ GetAddress(dev'[s]) = a
                   /\ GetIsValid(dev'[s])
                   /\ dev'[s].bound = a
                   /\ dev'[s].receive = "m_receive"
                   /\ dev'[s].request = "m_request"
          /\ (GetIsValid(dev[s]) /\ dev[s].receive = "m_receive")
             => /\ s \notin BoundTo(dev, LICD_LISTENER_ADDRESS)
                /\ [dev'[s] EXCEPT !.rx = dev[s].rx] = dev[s]]_vars
C11_Witness ==
    \E s \in DOMAIN dev :
        /\ dev[s] = [m_address |-> 3, bound |-> 3, receive |-> "m_receive",
                     request |-> "m_request", rx |-> << LICD_COMMAND_RETRY >>]

\* C12: after any sequence of inbound commands a slave's address is 0x01 or
\* lies in 0x02..0x7F, and GetIsValid() is true exactly when the slave has
\* processed an ASSIGN and handed the transport to the caller's handlers.
C12_AddressRangeAndValidity ==
    \A s \in DOMAIN dev :
        /\ GetAddress(dev[s]) \in {LICD_LISTENER_ADDRESS} \cup AssignableAddresses
        /\ GetIsValid(dev[s]) <=> (dev[s].receive = "m_receive")

\* C13: with PollDevice called again and again, at least one probe per call
\* (retry_count > 0) and transactions that eventually succeed, every slave
\* eventually has GetIsValid() == true.
C13_EverySlaveValid ==
    (m_retry_count > 0) => <>(\A s \in DOMAIN dev : GetIsValid(dev[s]))

\* C14: at the end of every PollDevice cycle each occupied registry slot i
\* corresponds to exactly one slave, whose address is 0x02 + i and whose
\* identity equals the slot's contents.
C14_SlotMatchesOneSlave ==
    pc = "idle" =>
      \A i \in Slots :
         m_devices[i].uuid # 0 =>
            /\ Cardinality({s \in DOMAIN dev :
                              GetAddress(dev[s]) = LICD_ADDRESS_SPACE + i}) = 1
            /\ \A s \in DOMAIN dev :
                  GetAddress(dev[s]) = LICD_ADDRESS_SPACE + i
                     => m_devices[i] = Identity(s)

\* C15: after the one Listening slave has handled a UUID query, the master's
\* read request of 8 bytes to 0x01 is answered with that slave's identity
\* record, and the slave stays Listening.
C15_PullGivesIdentity ==
    \A s \in DOMAIN dev :
        ( /\ pc = "scan"
          /\ new_address = LICD_LISTENER_ADDRESS
          /\ wire[Len(wire)] = RequestEntry(HeaderSize)
          /\ BoundTo(dev, LICD_LISTENER_ADDRESS) = {s}
          /\ dev[s].rx = << LICD_COMMAND_UUID >> )
        => /\ header = Identity(s)
           /\ Listening(dev[s])

\* C16: a PollDevice call sends at most retry_count UUID queries and none
\* after the first that returns Ok; it goes on to the header pull if and only
\* if the last query returned Ok; with retry_count == 0 it sends nothing and
\* aborts.
C16_ProbeLoop ==
    /\ Cardinality(Probes) <= m_retry_count
    /\ \A i, j \in Probes : (wire[i].err = 0 /\ i # j) => j < i
    /\ pc # "probe" => ((pc = "pull" \/ PullRequested) <=> LastProbeOk)
    /\ m_retry_count = 0 => (wire = << >> /\ pc \in {"idle", "probe"})
C16_Witness ==
    /\ m_retry_count = 2
    /\ Len(wire) = 3
    /\ wire[1].err = 2
    /\ wire[2].err = 0
    /\ wire[3].kind = "request"

\* C17: a PollDevice cycle sends at most one response, as its last
\* transaction: RETRY with no payload, or ASSIGN with one address byte that
\* lies in 0x02..0x7F and equals 0x02 + i, where slot i was free and was
\* written in this cycle with the header pulled in this cycle.
C17_OneResponse ==
    /\ Cardinality(Responses) <= 1
    /\ Responses # {} =>
         /\ pc = "idle"
         /\ Len(wire) \in Responses
         /\ \/ wire[Len(wire)].bytes = << LICD_COMMAND_RETRY >>
            \/ \E i \in Slots :
                  /\ wire[Len(wire)].bytes = << LICD_COMMAND_ASSIGN, LICD_ADDRESS_SPACE + i >>
                  /\ LICD_ADDRESS_SPACE + i \in AssignableAddresses
                  /\ start_devices[i].uuid = 0
                  /\ m_devices = [start_devices EXCEPT ![i] = header]
                  /\ \E k \in 1..Len(wire) :
                        wire[k].kind = "request" /\ wire[k].n >= HeaderSize
C17_Witness ==
    /\ pc = "idle"
    /\ Len(wire) > 0
    /\ wire[Len(wire)].bytes = << LICD_COMMAND_ASSIGN, LICD_ADDRESS_SPACE >>
    /\ header = [uuid |-> 2, flags |-> 1]
    /\ m_devices[0] = header
    /\ start_devices = EmptyRegistry

\* C18: no step changes or clears an occupied slot (uuid # 0), and a slot is
\* written by at most one registration of the session: the scan never writes
\* the slot of an address that an earlier registration already granted.
C18_SlotWrittenOnce ==
    [][ /\ \A i \in Slots :
              m_devices[i].uuid # 0 => m_devices'[i] = m_devices[i]
        /\ (pc = "scan" /\ new_address' # new_address)
           => \A k \in 1..Len(granted) : granted[k] # new_address' ]_vars

\* C19: a Listening slave handed a UUID query, a RETRY, an unknown command
\* byte or an empty transaction keeps address 0x01 and keeps ReceiveAddress
\* registered; only a transaction whose first byte is ASSIGN changes a
\* slave's address, binding or handlers.
C19_OnlyAssignChanges ==
    [][\A s \in DOMAIN dev :
          LET rx1 == dev'[s].rx
              isAssign == Len(rx1) > 0 /\ rx1[1] = LICD_COMMAND_ASSIGN
          IN /\ (Listening(dev[s]) /\ ~isAssign)
                => /\ Listening(dev'[s])
                   /\ dev'[s].bound = LICD_LISTENER_ADDRESS
                   /\ dev'[s].request = "nullptr"
             /\ [dev'[s] EXCEPT !.rx = dev[s].rx] # dev[s] => isAssign]_vars
C19_Witness ==
    \E s, u \in DOMAIN dev :
        /\ Listening(dev[s]) /\ dev[s].rx = << 4 >>
        /\ Listening(dev[u]) /\ dev[u].rx = << LICD_COMMAND_RETRY >>

\* C20: WireHelper::read returns true if and only if count > 0 and the bytes
\* that arrived are exactly the sizeof( T ) * count bytes requested; it
\* returns false for count == 0 and for fewer or more bytes.
C20_ReadExact ==
    call.result <=> (call.count > 0 /\ call.avail = HeaderSize * call.count)

====
